---- MODULE Spec2Model ----
(***************************************************************************)
(* Model of msid_plotting: the Glimmon limit queries (msid_limit.py), the  *)
(* MSIDPlot constructor / fetch_limit and the CommCheck singleton          *)
(* (msid_plot.py).                                                         *)
(*                                                                         *)
(* Strings are sequences of one-character strings, so that str.lower(),    *)
(* str.upper(), slicing and int() are computed character by character.     *)
(* An object's attribute dictionary is a function from attribute names;    *)
(* hasattr(obj, "x") is "x" \in DOMAIN obj.                                *)
(* Instants are whole seconds since midnight of day 0 (UTC).               *)
(***************************************************************************)
EXTENDS Integers, Sequences, FiniteSets, TLC

VARIABLES rows, msids, plot, dsn_comms, instance, self, ret

vars == <<rows, msids, plot, dsn_comms, instance, self, ret>>

(***************************************************************************)
(* Bounds                                                                  *)
(***************************************************************************)
MaxRows == 2
MaxMsids == 2
MaxDay == 1
MaxClockLen == 5

(***************************************************************************)
(* Python helpers                                                          *)
(***************************************************************************)
EmptyDict == [k \in {} |-> 0]

Range(s) == {s[i] : i \in 1..Len(s)}

SeqsUpTo(S, n) == UNION {[1..k -> S] : k \in 0..n}

\* str.lower() on one character
LowerChar(c) ==
    CASE c = "A" -> "a"
      [] c = "B" -> "b"
      [] c = "C" -> "c"
      [] OTHER -> c

\* str.upper() on one character
UpperChar(c) ==
    CASE c = "a" -> "A"
      [] c = "b" -> "B"
      [] c = "c" -> "C"
      [] c = "n" -> "N"
      [] c = "o" -> "O"
      [] c = "e" -> "E"
      [] OTHER -> c

Lower(s) == [i \in 1..Len(s) |-> LowerChar(s[i])]

Upper(s) == [i \in 1..Len(s) |-> UpperChar(s[i])]

(***************************************************************************)
(* msid_limit.py: the limits table                                         *)
(***************************************************************************)
\* the value 'none' that mlimsw holds for an MSID without a switch
NONE == <<"n", "o", "n", "e">>

\* Glimmon stores MSIDs in lowercase
StoredNames == {<<"a", "b">>, <<"c">>}

SwitchNames == {NONE, <<"c">>}

DateSecs == 1..2

\* the names a caller passes, in lower, upper and mixed case
InputNames == {<<"a", "b">>, <<"A", "B">>, <<"A", "b">>, <<"c">>}

\* the columns of Limit the queries read; a row's id is its position in rows
LimitCols == [msid : StoredNames, datesec : DateSecs, mlimsw : SwitchNames]

\* or_(*[Limit.msid == _ for _ in msids]): '==' is SQLite's binary string
\* comparison. or_() of no clause is an empty criterion, which filter()
\* drops, so every row is selected.
switch_or(names, r) ==
    IF names = <<>> THEN TRUE ELSE \E k \in 1..Len(names) : r.msid = names[k]

\* query_switch: the distinct mlimsw rows, each a 1-tuple, then the list
\* comprehension, which compares each row tuple i with the string 'none'
query_switch(table, names) ==
    LET selected == {i \in 1..Len(table) : switch_or(names, table[i])}
        result == {<<table[i].mlimsw>> : i \in selected}
    IN  {i[1] : i \in {j \in result : j # NONE}}

\* Limit.msid == msid.lower()
MsidFilter_nolower(msid, r) == r.msid = msid

MsidFilter(msid, r) == r.msid = Lower(msid)

\* order_by(Limit.datesec): every order of the selected rows that is
\* non-decreasing in datesec (rows of equal datesec come in any order)
OrderBy(table, ids) ==
    {s \in [1..Cardinality(ids) -> ids] :
        /\ \A i, j \in 1..Cardinality(ids) : i # j => s[i] # s[j]
        /\ \A i, j \in 1..Cardinality(ids) :
              i < j => table[s[i]].datesec <= table[s[j]].datesec}

\* query_msid_limits: the dictionaries it can return, each mapping a given
\* name to a sequence of row ids
query_msid_limits(table, names) ==
    LET all(n) == OrderBy(table, {i \in 1..Len(table) : MsidFilter(n, table[i])})
    IN  {d \in [Range(names) -> UNION {all(n) : n \in Range(names)}] :
            \A n \in Range(names) : d[n] \in all(n)}

(***************************************************************************)
(* Initial state                                                           *)
(***************************************************************************)
InitLimit ==
    /\ rows \in SeqsUpTo(LimitCols, MaxRows)
    /\ msids \in SeqsUpTo(InputNames, MaxMsids)
    /\ plot = EmptyDict
    /\ dsn_comms = <<>>
    /\ instance = FALSE
    /\ self = EmptyDict
    /\ ret = [op |-> "none", raised |-> "", value |-> {}]

(***************************************************************************)
(* msid_limit.py / MSIDPlot operations                                     *)
(***************************************************************************)
QuerySwitch ==
    /\ ret.op = "none"
    /\ ret' = [op |-> "query_switch", raised |-> "",
               value |-> query_switch(rows, msids)]
    /\ UNCHANGED <<rows, msids, plot, dsn_comms, instance, self>>

QueryMsidLimits ==
    /\ ret.op = "none"
    /\ \E d \in query_msid_limits(rows, msids) :
          ret' = [op |-> "query_msid_limits", raised |-> "", value |-> d]
    /\ UNCHANGED <<rows, msids, plot, dsn_comms, instance, self>>

\* MSIDPlot(msids, start, stop) with a list, a str or anything else
MSIDPlotInit ==
    /\ ret.op = "none"
    /\ \E kind \in {"list", "str", "other"} :
          CASE kind = "list" ->
                 /\ plot' = [msids |-> [i \in 1..Len(msids) |-> Upper(msids[i])]]
                 /\ ret' = [op |-> "MSIDPlot", raised |-> "", value |-> {}]
            [] kind = "str" ->
                 /\ msids # <<>>
                 /\ plot' = [msids |-> <<Upper(msids[1])>>]
                 /\ ret' = [op |-> "MSIDPlot", raised |-> "", value |-> {}]
            [] OTHER ->
                 /\ plot' = plot
                 /\ ret' = [op |-> "MSIDPlot", raised |-> "Exception", value |-> {}]
    /\ UNCHANGED <<rows, msids, dsn_comms, instance, self>>

FetchLimit ==
    /\ ret.op = "MSIDPlot"
    /\ "msids" \in DOMAIN plot
    /\ \E d \in query_msid_limits(rows, plot.msids) :
          /\ plot' = [limits |-> d] @@ plot
          /\ ret' = [op |-> "fetch_limit", raised |-> "", value |-> {}]
    /\ UNCHANGED <<rows, msids, dsn_comms, instance, self>>

NextLimit == QuerySwitch \/ QueryMsidLimits \/ MSIDPlotInit \/ FetchLimit

SpecLimit == InitLimit /\ [][NextLimit]_vars

(***************************************************************************)
(* msid_plot.py: CommCheck                                                 *)
(***************************************************************************)
DaySec == 86400

\* midnight of the calendar date of instant t: datetime.date()
Date(t) == (t \div DaySec) * DaySec

Digit(c) ==
    CASE c = "0" -> 0 [] c = "1" -> 1 [] c = "2" -> 2 [] c = "3" -> 3
      [] c = "4" -> 4 [] c = "5" -> 5 [] c = "6" -> 6 [] c = "7" -> 7
      [] c = "8" -> 8 [] c = "9" -> 9 [] OTHER -> -1

\* s.strip(): without its leading and trailing whitespace
Strip(s) ==
    LET ink == {i \in 1..Len(s) : s[i] # " "}
    IN  IF ink = {} THEN <<>>
        ELSE LET first == CHOOSE i \in ink : \A j \in ink : i <= j
                 last == CHOOSE i \in ink : \A j \in ink : j <= i
             IN  SubSeq(s, first, last)

RECURSIVE DigitsValue(_)
DigitsValue(t) ==
    IF t = <<>> THEN 0
    ELSE 10 * DigitsValue(SubSeq(t, 1, Len(t) - 1)) + Digit(t[Len(t)])

\* the result of int(s) that marks ValueError
ValueError == -1

\* int(s) of a str over digits, blanks and letters: surrounding whitespace
\* is ignored, the rest must be one or more decimal digits
int(s) ==
    LET t == Strip(s)
    IN  IF t = <<>> \/ \E i \in 1..Len(t) : Digit(t[i]) = -1
        THEN ValueError
        ELSE DigitsValue(t)

\* s[:2] and s[2:]
Head2(s) == SubSeq(s, 1, IF Len(s) < 2 THEN Len(s) ELSE 2)

Tail2(s) == SubSeq(s, 3, Len(s))

\* time(hour=int(clock[:2]), minute=int(clock[2:])) as seconds of the day,
\* ValueError when int() or time() raises
ClockTime(clock) ==
    LET hour == int(Head2(clock))
        minute == int(Tail2(clock))
    IN  IF hour = ValueError \/ minute = ValueError \/ hour > 23 \/ minute > 59
        THEN ValueError
        ELSE hour * 3600 + minute * 60

\* _track_start: bot on the date of the pass start, a day later if that is
\* before the start
TrackStart_noshift(start, bot) == Date(start) + ClockTime(bot)

TrackStart_le(start, bot) ==
    LET t == Date(start) + ClockTime(bot)
    IN  IF t <= start THEN t + DaySec ELSE t

TrackStart(start, bot) ==
    LET t == Date(start) + ClockTime(bot)
    IN  IF t < start THEN t + DaySec ELSE t

\* _track_stop: eot on the date of the pass stop, a day earlier if that is
\* after the stop
TrackStop_noshift(stop, eot) == Date(stop) + ClockTime(eot)

TrackStop(stop, eot) ==
    LET t == Date(stop) + ClockTime(eot)
    IN  IF t > stop THEN t - DaySec ELSE t

\* lo < self.current_time < hi
Within_closed(lo, t, hi) == lo <= t /\ t <= hi

Within(lo, t, hi) == lo < t /\ t < hi

\* check(): the attribute dictionary it leaves and the exception it raises,
\* for the instant CxoTime() returns and the result of the dsn_comms filter
check(s, now, query) ==
    LET s1 == [current_time |-> now, dsn_query |-> query,
               in_support |-> FALSE, in_track |-> FALSE] @@ s
    IN  IF query = <<>> THEN [self |-> s1, raised |-> "IndexError"]
        ELSE
        LET comm == query[1]
            s2 == [comm |-> comm] @@ s1
        IN  IF ClockTime(comm.bot) = ValueError \/ ClockTime(comm.eot) = ValueError
            THEN [self |-> s2, raised |-> "ValueError"]
            ELSE
            LET track_start == TrackStart(comm.start, comm.bot)
                track_stop == TrackStop(comm.stop, comm.eot)
                s3 == [support_start |-> comm.start, support_stop |-> comm.stop,
                       track_start |-> track_start, track_stop |-> track_stop,
                       in_support |-> Within(comm.start, now, comm.stop),
                       in_track |-> Within(track_start, now, track_stop)] @@ s2
            IN  [self |-> s3, raised |-> ""]

\* the seconds of the day at which passes start and stop and checks run:
\* 00:10, 10:00, 10:00:30, 23:55
DayTimes == {600, 36000, 36030, 86100}

\* the days 1 to MaxDay + 1
Instants == {d * DaySec + c : d \in 1..(MaxDay + 1), c \in DayTimes}

Clock(a, b, c, d) == <<a, b, c, d>>

\* "0010", "1000", "2355"
TrackClocks ==
    {Clock("0", "0", "1", "0"), Clock("1", "0", "0", "0"),
     Clock("2", "3", "5", "5")}

\* the comm passes an event source can hold: start < stop, bot and eot HHMM
Passes ==
    {p \in [start : Instants, stop : Instants, bot : TrackClocks, eot : TrackClocks] :
        p.start < p.stop}

\* clock strings of any shape
ClockChars == {"0", "6", " ", "x"}

AnyClocks == SeqsUpTo(ClockChars, MaxClockLen)

\* passes of which one clock string has any shape
AnyPasses ==
    {p \in [start : {DaySec + 36000}, stop : {DaySec + 86100},
          bot : AnyClocks, eot : AnyClocks] :
        p.bot = Clock("0", "6", "0", "0") \/ p.eot = Clock("0", "6", "0", "6")}

\* kadi.events.dsn_comms.filter(start=now): the filter is the event
\* service's; for any instant it holds the pass of the source or nothing.
\* Only element 0 of it is read.
Filter(now) == {<<>>, dsn_comms}

\* CxoTime(): the clock does not run backwards
Now(s) == {t \in Instants : "current_time" \in DOMAIN s => t >= s.current_time}

InitSelf ==
    /\ rows = <<>>
    /\ msids = <<>>
    /\ plot = EmptyDict
    /\ instance = FALSE
    /\ self = EmptyDict
    /\ ret = [op |-> "none", raised |-> "", value |-> {}]

InitComm ==
    /\ dsn_comms \in {<<>>} \cup {<<p>> : p \in Passes}
    /\ InitSelf

InitClock ==
    /\ dsn_comms \in {<<p>> : p \in AnyPasses}
    /\ InitSelf

\* CommCheck(): __new__ then __init__, which runs check() once
Construct ==
    /\ instance' = TRUE
    /\ IF "_initialized" \notin DOMAIN self
       THEN \E now \in Now(self) : \E query \in Filter(now) :
               LET r == check(("_initialized" :> TRUE) @@ self, now, query)
               IN  /\ self' = r.self
                   /\ ret' = [op |-> "CommCheck", raised |-> r.raised, value |-> {}]
       ELSE /\ self' = self
            /\ ret' = [op |-> "CommCheck_existing", raised |-> "", value |-> {}]
    /\ UNCHANGED <<rows, msids, plot, dsn_comms>>

\* check() on the instance
Check ==
    /\ instance
    /\ \E now \in Now(self) : \E query \in Filter(now) :
          LET r == check(self, now, query)
          IN  /\ self' = r.self
              /\ ret' = [op |-> "check", raised |-> r.raised, value |-> {}]
    /\ UNCHANGED <<rows, msids, plot, dsn_comms, instance>>

NextComm == Construct \/ Check

SpecComm == InitComm /\ [][NextComm]_vars

SpecClock == InitClock /\ [][NextComm]_vars

(***************************************************************************)
(* Properties                                                              *)
(***************************************************************************)
CasePairs == {<<"a", "A">>, <<"b", "B">>, <<"c", "C">>}

\* two names that differ at most in letter case
CaseEq(a, b) ==
    /\ Len(a) = Len(b)
    /\ \A i \in 1..Len(a) :
          a[i] = b[i] \/ <<a[i], b[i]>> \in CasePairs \/ <<b[i], a[i]>> \in CasePairs

\* the rows of a channel, whatever the case of the name
RowsOf(n) == {i \in 1..Len(rows) : CaseEq(rows[i].msid, n)}

\* the switch channels of the rows of the given channels, 'none' left out
SwitchesOf(names) ==
    {rows[i].mlimsw : i \in UNION {RowsOf(n) : n \in Range(names)}} \ {NONE}

\* C1: query_switch returns exactly the distinct mlimsw values of the rows
\* of the given channels without the sentinel 'none'; the sentinel is never
\* in the result, and the result is empty when no given channel has a switch.
\* Stated for the lists C2 and C3 do not speak of: not empty, and the names
\* in the case the store holds them.
C1_SwitchesWithoutSentinel ==
    (/\ ret.op = "query_switch"
     /\ msids # <<>>
     /\ \A n \in Range(msids) : n = Lower(n)) =>
        /\ NONE \notin ret.value
        /\ ret.value = SwitchesOf(msids)

\* C2: query_switch of an empty list of channels returns an empty result,
\* whatever rows the store holds.
C2_EmptyInputEmptyOutput ==
    (ret.op = "query_switch" /\ msids = <<>>) => ret.value = {}

\* C3: query_switch matches names case-insensitively: every list naming the
\* same channels, in any letter case and with any repetition, returns the
\* same set of switch channels.
C3_SwitchCaseInsensitive ==
    ret.op = "query_switch" =>
        \A other \in SeqsUpTo(InputNames, MaxMsids) :
            ({Lower(n) : n \in Range(other)} = {Lower(n) : n \in Range(msids)})
                => query_switch(rows, other) = ret.value

\* a dictionary that maps each given name to exactly the rows of that
\* channel, each once, in non-decreasing datesec order
ExactRowsInOrder(d, names) ==
    /\ DOMAIN d = Range(names)
    /\ \A n \in Range(names) :
          /\ Range(d[n]) = RowsOf(n)
          /\ Len(d[n]) = Cardinality(RowsOf(n))
          /\ \A i \in 1..Len(d[n]) - 1 :
                rows[d[n][i]].datesec <= rows[d[n][i + 1]].datesec

\* C4: query_msid_limits maps each given name, in any letter case, to
\* exactly the stored rows of that channel in non-decreasing datesec order,
\* and a name without stored rows to an empty sequence.
C4_RowsPerNameInOrder ==
    /\ ret.op = "query_msid_limits" => ExactRowsInOrder(ret.value, msids)
    /\ "limits" \in DOMAIN plot => ExactRowsInOrder(plot.limits, plot.msids)

\* an upper-case name mapped to two rows that the store holds in
\* descending datesec order, beside a name without stored rows
C4_Witness ==
    /\ ret.op = "query_msid_limits"
    /\ \E n \in Range(msids) :
          /\ n # Lower(n)
          /\ Len(ret.value[n]) = 2
          /\ ret.value[n][1] > ret.value[n][2]
          /\ rows[ret.value[n][1]].datesec < rows[ret.value[n][2]].datesec
    /\ \E n \in Range(msids) : ret.value[n] = <<>>

\* the last call ran check() to its end
CheckSucceeded == ret.op \in {"CommCheck", "check"} /\ ret.raised = ""

\* a clock string of exactly two digits of hour 00-23 and two of minute 00-59
WellFormedHHMM(c) ==
    /\ Len(c) = 4
    /\ \A i \in 1..4 : Digit(c[i]) \in 0..9
    /\ 10 * Digit(c[1]) + Digit(c[2]) <= 23
    /\ 10 * Digit(c[3]) + Digit(c[4]) <= 59

\* the instant on the calendar date of t at which the clock reads HHMM
OnDateOf(t, c) ==
    (t - (t % DaySec))
        + (10 * Digit(c[1]) + Digit(c[2])) * 60 * 60
        + (10 * Digit(c[3]) + Digit(c[4])) * 60

\* C5: track_start is the begin clock time on the date of the pass start if
\* that is not before the pass start, else exactly 24 hours later;
\* track_stop is the end clock time on the date of the pass stop if that is
\* not after the pass stop, else exactly 24 hours earlier; the support
\* window is the pass start and stop unchanged.
C5_RolloverByOneDay ==
    CheckSucceeded =>
        LET pass == self.dsn_query[1]
            b == OnDateOf(pass.start, pass.bot)
            e == OnDateOf(pass.stop, pass.eot)
        IN  /\ self.track_start = IF b >= pass.start THEN b ELSE b + 24 * 60 * 60
            /\ self.track_stop = IF e <= pass.stop THEN e ELSE e - 24 * 60 * 60
            /\ self.support_start = pass.start
            /\ self.support_stop = pass.stop

\* a pass over midnight of which both track bounds were moved by a day
C5_Witness ==
    /\ CheckSucceeded
    /\ self.track_start = OnDateOf(self.support_start, self.comm.bot) + DaySec
    /\ self.track_stop = OnDateOf(self.support_stop, self.comm.eot) - DaySec

\* C6 as stated: the window of a pass with start < stop and well-formed
\* clock strings satisfies start <= track_start <= track_stop <= stop.
C6_ValidSubWindow ==
    CheckSucceeded =>
        /\ self.support_start <= self.track_start
        /\ self.track_start <= self.track_stop
        /\ self.track_stop <= self.support_stop

\* C6 amended: track_start is at or after the pass start and less than a day
\* after it, track_stop is at or before the pass stop and less than a day
\* before it.
C6_WithinADayOfThePass ==
    CheckSucceeded =>
        /\ self.support_start <= self.track_start
        /\ self.track_start < self.support_start + DaySec
        /\ self.track_stop <= self.support_stop
        /\ self.support_stop - DaySec < self.track_stop

\* a computed window that is inverted and one that ends outside the pass
C6_Witness ==
    /\ CheckSucceeded
    /\ self.support_start < self.support_stop
    /\ WellFormedHHMM(self.comm.bot) /\ WellFormedHHMM(self.comm.eot)
    /\ self.track_start > self.track_stop
    /\ self.track_start > self.support_stop

\* C7: after a successful check, in_support is true exactly when
\* support_start < current_time < support_stop and in_track exactly when
\* track_start < current_time < track_stop, both strict.
C7_FlagsAreOpenIntervals ==
    CheckSucceeded =>
        /\ self.in_support <=>
              (self.support_start < self.current_time
                  /\ self.current_time < self.support_stop)
        /\ self.in_track <=>
              (self.track_start < self.current_time
                  /\ self.current_time < self.track_stop)

\* a later check() at the very end of the track window and of the pass:
\* both flags are false
C7_Witness ==
    /\ ret.op = "check" /\ ret.raised = ""
    /\ self.current_time = self.support_stop
    /\ self.current_time = self.track_stop
    /\ self.track_start < self.current_time
    /\ ~self.in_support /\ ~self.in_track

\* C8: a track clock string that is not exactly HHMM with hour 00-23 and
\* minute 00-59 makes the check fail with an error and yields no track window.
C8_MalformedClockRaises ==
    ("comm" \in DOMAIN self
        /\ (~WellFormedHHMM(self.comm.bot) \/ ~WellFormedHHMM(self.comm.eot))) =>
        /\ "track_start" \notin DOMAIN self
        /\ (ret.op \in {"CommCheck", "check"} /\ self.dsn_query # <<>>)
              => ret.raised = "ValueError"

WindowFields == {"comm", "support_start", "support_stop", "track_start", "track_stop"}

\* C9: the window fields on the instance were computed in the check that
\* set its current_time: when that check found no pass the instance exposes
\* no window, and otherwise the window is that of the pass it found.
C9_WindowOfTheSameCheck ==
    "current_time" \in DOMAIN self =>
        IF self.dsn_query = <<>>
        THEN WindowFields \cap DOMAIN self = {}
        ELSE /\ WindowFields \subseteq DOMAIN self
             /\ self.comm = self.dsn_query[1]
             /\ self.support_start = self.comm.start
             /\ self.support_stop = self.comm.stop

\* C10: in_track implies in_support, in every state of the instance.
C10_TrackImpliesSupport ==
    "in_track" \in DOMAIN self => (self.in_track => self.in_support)

\* an instant inside a track window that was moved by a day at its end
C10_Witness ==
    /\ CheckSucceeded
    /\ self.in_track /\ self.in_support
    /\ self.track_stop = OnDateOf(self.support_stop, self.comm.eot) - DaySec

====
